---- MODULE Spec2Model ----
(***************************************************************************)
(* Row-processing orchestration of cloud_funktions/creative_crf/main.py:   *)
(* the Orchestrator (crf_entrypoint) scans the BigQuery table for rows     *)
(* whose processed_status is NULL, marks them QUEUED and publishes one     *)
(* worker message per row; the Worker (agent_worker_entrypoint) runs the   *)
(* agent for one row and writes PROCESSED or FAILED.                       *)
(***************************************************************************)
EXTENDS Integers, Sequences, FiniteSets, TLC

\* ---------------------------------------------------------------- bounds
NumRows == 2
NumInvocations == 2
NumWorkers == 2
MaxDeliveries == 2
MaxQuota == 3
MaxSeconds == 2
MaxTime == 6

Rows == 1..NumRows
Invocations == 1..NumInvocations
Workers == 1..NumWorkers

\* ------------------------------------------------------------- constants
NULL == "NULL"
Status == {NULL, "QUEUED", "PROCESSED", "FAILED"}
Agents == {"a1", "a2"}
NoExc == "none"

\* ------------------------------------------------ timestamp conversions
\* row["entry_timestamp"].isoformat(): the timestamp as an ISO 8601 string
isoformat(t) == <<"iso8601", t>>

\* TIMESTAMP('<string>') of the UPDATE statement: the string parsed back
TIMESTAMP(s) == s[2]

\* ------------------------------------------------------------ Row Store
\* one row as created by the upstream process
NewRow(t) ==
    [processed_status |-> NULL,
     target_trend |-> <<"trend", t>>,
     brand |-> <<"brand", t>>,
     target_audience |-> <<"audience", t>>,
     target_product |-> <<"product", t>>,
     key_selling_point |-> <<"ksp", t>>]

RECURSIVE SortAsc(_)
SortAsc(S) ==
    IF S = {} THEN <<>>
    ELSE LET m == CHOOSE x \in S : \A y \in S : x <= y
         IN <<m>> \o SortAsc(S \ {m})

\* mutant: ORDER BY entry_timestamp DESC
rows_to_process_query_desc(tbl) ==
    LET asc == SortAsc({t \in DOMAIN tbl : tbl[t].processed_status = NULL})
    IN [k \in 1..Len(asc) |-> asc[Len(asc) + 1 - k]]

\* mutant: the query stops at the first row (LIMIT 1)
rows_to_process_query_limit(tbl) ==
    LET all == SortAsc({t \in DOMAIN tbl : tbl[t].processed_status = NULL})
    IN IF Len(all) = 0 THEN all ELSE <<all[1]>>

\* mutant: the query also selects the rows left QUEUED
rows_to_process_query_requeue(tbl) ==
    SortAsc({t \in DOMAIN tbl : tbl[t].processed_status \in {NULL, "QUEUED"}})

\* mutant: the query also selects FAILED rows
rows_to_process_query_failed(tbl) ==
    SortAsc({t \in DOMAIN tbl : tbl[t].processed_status \in {NULL, "FAILED"}})

\* SELECT * ... WHERE processed_status IS NULL ORDER BY entry_timestamp ASC
rows_to_process_query(tbl) ==
    SortAsc({t \in DOMAIN tbl : tbl[t].processed_status = NULL})

\* for index, row in df.iterrows(): row_dict = {...}
row_dict(tbl, df, k) ==
    [index |-> k - 1,
     entry_timestamp |-> isoformat(df[k]),
     target_search_trend |-> tbl[df[k]].target_trend,
     brand |-> tbl[df[k]].brand,
     target_audience |-> tbl[df[k]].target_audience,
     target_product |-> tbl[df[k]].target_product,
     key_selling_point |-> tbl[df[k]].key_selling_point]

build_row_list(tbl, df) == [k \in 1..Len(df) |-> row_dict(tbl, df, k)]

\* timestamps_to_process = [d["entry_timestamp"] for d in row_list]
timestamps_of(rl) == [k \in 1..Len(rl) |-> rl[k].entry_timestamp]

\* the set of rows matched by WHERE entry_timestamp IN (TIMESTAMP(..), ...)
InClause(timestamps) == {TIMESTAMP(timestamps[k]) : k \in 1..Len(timestamps)}

\* mutant: the empty list is not short-circuited
update_issues_query_always(timestamps) == TRUE

\* if not timestamps: return, before any query is built
update_issues_query(timestamps) == Len(timestamps) # 0

\* mutant: the except block logs the error and returns
update_swallows(ok) == FALSE

\* try: query_job.result() / except Exception: ... raise
update_raises(ok) == ~ok

\* mutant: the WHERE clause is entry_timestamp <= the latest listed one
update_rows_status_upto(tbl, timestamps, status) ==
    [t \in DOMAIN tbl |->
       IF \E u \in InClause(timestamps) : t <= u
       THEN [tbl[t] EXCEPT !.processed_status = status]
       ELSE tbl[t]]

\* mutant: the UPDATE has no WHERE clause
update_rows_status_all(tbl, timestamps, status) ==
    [t \in DOMAIN tbl |-> [tbl[t] EXCEPT !.processed_status = status]]

\* update_rows_status when the UPDATE statement succeeds
update_rows_status(tbl, timestamps, status) ==
    IF Len(timestamps) = 0 THEN tbl
    ELSE [t \in DOMAIN tbl |->
            IF t \in InClause(timestamps)
            THEN [tbl[t] EXCEPT !.processed_status = status]
            ELSE tbl[t]]

\* ------------------------------------------------- trigger notification
TriggerKeys == {"bq_dataset", "bq_table", "agent_resource_id"}

TriggerValue(k, a) ==
    CASE k = "bq_dataset" -> "trend_trawler"
      [] k = "bq_table" -> "target_trends_crf"
      [] k = "agent_resource_id" -> a

Payload(keys, a) == [k \in keys |-> TriggerValue(k, a)]

NoData == [kind |-> "nodata"]
BadJson == [kind |-> "badjson"]
Json(p) == [kind |-> "json", payload |-> p]

Triggers ==
    {NoData, BadJson}
    \cup {Json(Payload(ks, "a1")) : ks \in SUBSET TriggerKeys}
    \cup {Json(Payload(TriggerKeys, a)) : a \in Agents}

ValidTrigger(trig) ==
    trig.kind = "json" /\ DOMAIN trig.payload = TriggerKeys

\* mutant: an undecodable message falls back to an empty payload and the
\* scan runs
crf_parse_default(trig) ==
    IF trig.kind # "json" THEN [next |-> "query", exc |-> NoExc]
    ELSE IF "bq_dataset" \notin DOMAIN trig.payload
    THEN [next |-> "raised", exc |-> "UnboundLocalError"]
    ELSE IF "bq_table" \notin DOMAIN trig.payload
            \/ "agent_resource_id" \notin DOMAIN trig.payload
    THEN [next |-> "raised", exc |-> "KeyError"]
    ELSE [next |-> "query", exc |-> NoExc]

\* crf_entrypoint up to the query: decode the message, read the three keys
crf_parse(trig) ==
    IF trig.kind # "json"
    THEN \* message_payload was never bound
         [next |-> "raised", exc |-> "UnboundLocalError"]
    ELSE IF DOMAIN trig.payload = {} \/ "bq_dataset" \notin DOMAIN trig.payload
    THEN \* the if is skipped and df was never bound
         [next |-> "raised", exc |-> "UnboundLocalError"]
    ELSE IF "bq_table" \notin DOMAIN trig.payload
            \/ "agent_resource_id" \notin DOMAIN trig.payload
    THEN [next |-> "raised", exc |-> "KeyError"]
    ELSE [next |-> "query", exc |-> NoExc]

\* mutant: the dispatch loop runs without the lock step
after_query_unclaimed(df) == IF Len(df) = 0 THEN "done" ELSE "publish"

\* mutant: the lock step runs on an empty batch too
after_query_always_claim(df) == "claim"

\* if df.empty: ... else: ...
after_query(df) == IF Len(df) = 0 THEN "done" ELSE "claim"

\* mutant: the failure of the query is logged and the function returns
after_query_error_swallow(exc) == "done"

\* except Exception as e: logging.error(...); raise
after_query_error(exc) == "raised"

\* mutant: the failure of the claim is logged and swallowed
after_claim_swallow(ok) == "publish"

\* update_rows_status(..., "QUEUED") returns, or raises out of crf_entrypoint
after_claim(ok) == IF ok THEN "publish" ELSE "raised"

\* worker_payload = {...}
worker_payload(payload, rd) ==
    [bq_dataset |-> payload["bq_dataset"],
     bq_table |-> payload["bq_table"],
     agent_resource_id |-> payload["agent_resource_id"],
     row_data |-> rd]

\* a worker message whose data is not base64 of a JSON document
Undecodable == [undecodable |-> TRUE]

WorkerKeys == {"bq_dataset", "bq_table", "agent_resource_id", "row_data"}

\* mutant: a message without row_data is run with an empty row
worker_parse_lenient(msg) ==
    IF "undecodable" \in DOMAIN msg
    THEN [next |-> "raised", exc |-> "JSONDecodeError"]
    ELSE IF ~(WorkerKeys \ {"row_data"} \subseteq DOMAIN msg)
    THEN [next |-> "raised", exc |-> "KeyError"]
    ELSE [next |-> "agent", exc |-> NoExc]

\* agent_worker_entrypoint up to asyncio.run: decode the message, read the
\* four keys; any exception is logged and re-raised
worker_parse(msg) ==
    IF "undecodable" \in DOMAIN msg
    THEN [next |-> "raised", exc |-> "JSONDecodeError"]
    ELSE IF ~(WorkerKeys \subseteq DOMAIN msg)
    THEN [next |-> "raised", exc |-> "KeyError"]
    ELSE [next |-> "agent", exc |-> NoExc]

\* ---------------------------------------------------------------- worker
\* what the three remote calls of one agent run would do: return or raise
AgentOutcomes == [create : BOOLEAN, stream : BOOLEAN, delete : BOOLEAN]

\* mutant: async_send_message lets the streaming exception through
async_send_message_propagates(ok) == IF ok THEN NoExc ELSE "StreamError"

\* async_send_message: an exception of async_stream_query is logged only
async_send_message(ok) == NoExc

\* my_delete_task: async_delete_session returns or raises
my_delete_task(ok) == IF ok THEN NoExc ELSE "SessionDeleteError"

\* create_agent_run: the remote calls it issues, in order
agent_calls(o) ==
    IF ~o.create THEN <<"create_session">>
    ELSE IF async_send_message(o.stream) # NoExc
    THEN <<"create_session", "stream_query">>
    ELSE <<"create_session", "stream_query", "delete_session">>

\* create_agent_run: the exception it raises, NoExc when it returns
create_agent_run(o) ==
    IF ~o.create THEN "SessionCreateError"
    ELSE IF async_send_message(o.stream) # NoExc
    THEN async_send_message(o.stream)
    ELSE my_delete_task(o.delete)

\* the first remote call of the run that raised, logged or not
agent_failure(o) ==
    IF ~o.create THEN "SessionCreateError"
    ELSE IF ~o.stream THEN "StreamError"
    ELSE IF ~o.delete /\ Len(agent_calls(o)) = 3 THEN "SessionDeleteError"
    ELSE NoExc

\* mutant: the except block re-raises without the FAILED update
after_agent_run_no_update(exc) == IF exc = NoExc THEN "upd_processed" ELSE "raised"

\* try: await create_agent_run(...) / except Exception
after_agent_run(exc) == IF exc = NoExc THEN "upd_processed" ELSE "upd_failed"

\* mutant: the FAILED update runs as a finally clause
after_processed_update_finally(ok) == "upd_failed"

\* update_rows_status(..., "PROCESSED") inside the try block
after_processed_update(ok) == IF ok THEN "returned" ELSE "upd_failed"

\* mutant: the except block marks the row and does not raise
after_failed_update_swallow(ok) == "returned"

\* the except block ends in a raise whether the FAILED update returned or not
after_failed_update(ok) == "raised"

\* the exception leaving the except block: the bare raise re-raises the
\* caught exception unless the FAILED update raised itself
exc_after_failed_update(ok, caught) == IF ok THEN caught ELSE "UpdateError"

\* ----------------------------------------------------------------- state
VARIABLES
    table,      \* Row Store: entry_timestamp -> row
    orch,       \* per Orchestrator invocation: locals of crf_entrypoint
    published,  \* every message handed to pubsub_publisher.publish, in order
    queue,      \* per published message: delivery state on the worker topic
    worker,     \* per Worker process: locals of agent_worker_entrypoint
    claimed,    \* <<invocation, row>> of every QUEUED update that returned
    terminal,   \* per row: PROCESSED/FAILED written since its last QUEUED
    clean_runs, \* rows with an agent run in which no remote call raised
    call,       \* one direct call of update_rows_status: arguments and outcome
    limiter     \* rate_limit_callback: config, session state and the clock

vars == <<table, orch, published, queue, worker, claimed, terminal, clean_runs,
          call, limiter>>

IdleOrch ==
    [pc |-> "idle", trigger |-> NoData, df |-> <<>>, row_list |-> <<>>,
     dispatched_count |-> 0, exc |-> NoExc]

IdleCall ==
    [pc |-> "idle", timestamps |-> <<>>, status |-> NULL, queries |-> 0,
     before |-> <<>>]

\* callback_context.state before the first call: neither key is present
EmptyState == [keys |-> {}, timer_start |-> 0, request_count |-> 0]

IdleLimiter ==
    [config |-> [rpm_quota |-> 1, rate_limit_seconds |-> 1],
     state |-> EmptyState, time |-> 0, slept |-> 0]

IdleWorker ==
    [pc |-> "idle", msg |-> 0, agent_failure |-> NoExc, exc |-> NoExc,
     updates |-> <<>>, calls |-> <<>>]

Init ==
    /\ \E present \in SUBSET Rows : table = [t \in present |-> NewRow(t)]
    /\ orch = [i \in Invocations |-> IdleOrch]
    /\ published = <<>>
    /\ queue = <<>>
    /\ worker = [w \in Workers |-> IdleWorker]
    /\ claimed = {}
    /\ terminal = [t \in Rows |-> {}]
    /\ clean_runs = {}
    /\ call = IdleCall
    /\ limiter = IdleLimiter

\* ---------------------------------------------------------- Orchestrator
\* the trigger notification arrives; crf_entrypoint decodes it
Receive(i, trigs) ==
    /\ orch[i].pc = "idle"
    /\ \E trig \in trigs :
         LET p == crf_parse(trig)
         IN orch' = [orch EXCEPT ![i].trigger = trig,
                                 ![i].pc = p.next,
                                 ![i].exc = p.exc]
    /\ UNCHANGED <<limiter, call, table, published, queue, worker, claimed, terminal, clean_runs>>

\* df = bq_client.query(rows_to_process_query).to_dataframe(), row_list
OrchQuery(i) ==
    /\ orch[i].pc = "query"
    /\ \E ok \in BOOLEAN :
         IF ok
         THEN LET df == rows_to_process_query(table)
              IN orch' = [orch EXCEPT ![i].df = df,
                                      ![i].row_list = build_row_list(table, df),
                                      ![i].pc = after_query(df)]
         ELSE orch' = [orch EXCEPT ![i].pc = after_query_error("QueryError"),
                                   ![i].exc = "QueryError"]
    /\ UNCHANGED <<limiter, call, table, published, queue, worker, claimed, terminal, clean_runs>>

\* LOCK STEP: update_rows_status(timestamps_to_process, "QUEUED")
OrchClaim(i) ==
    /\ orch[i].pc = "claim"
    /\ \E ok \in BOOLEAN :
         LET ts == timestamps_of(orch[i].row_list)
         IN /\ orch' = [orch EXCEPT ![i].pc = after_claim(ok),
                                    ![i].exc = IF ok THEN NoExc ELSE "UpdateError"]
            /\ IF ok
               THEN /\ table' = update_rows_status(table, ts, "QUEUED")
                    /\ claimed' = claimed \cup {<<i, t>> : t \in InClause(ts)}
                    /\ terminal' = [t \in Rows |->
                                      IF t \in InClause(ts) THEN {} ELSE terminal[t]]
               ELSE UNCHANGED <<table, claimed, terminal>>
    /\ UNCHANGED <<limiter, call, published, queue, worker, clean_runs>>

\* the states in which a publish call can leave its message: accepted by
\* the worker topic, or lost after the call returned its future
PublishOutcomes == {"pending", "lost"}

\* mutant: the publish future is awaited and a lost message raises
after_publish_checked(st) == IF st = "lost" THEN "raised" ELSE "publish"

\* pubsub_publisher.publish(...): the returned future is never awaited
after_publish(st) == "publish"

\* one iteration of the dispatch loop, or its end
Publish(i, outcomes) ==
    /\ orch[i].pc = "publish"
    /\ IF orch[i].dispatched_count < Len(orch[i].row_list)
       THEN LET rd == orch[i].row_list[orch[i].dispatched_count + 1]
            IN \E st \in outcomes :
                 /\ published' = Append(published,
                       [by |-> i, msg |-> worker_payload(orch[i].trigger.payload, rd)])
                 /\ queue' = Append(queue, [st |-> st, deliveries |-> 0])
                 /\ orch' = [orch EXCEPT ![i].dispatched_count = @ + 1,
                                         ![i].pc = after_publish(st)]
       ELSE /\ orch' = [orch EXCEPT ![i].pc = "done"]
            /\ UNCHANGED <<published, queue>>
    /\ UNCHANGED <<limiter, call, table, worker, claimed, terminal, clean_runs>>

\* the dispatch loop when the worker topic accepts every message
OrchPublish(i) == Publish(i, {"pending"})

\* ---------------------------------------------------------------- Worker
MsgRow(m) == TIMESTAMP(published[m].msg.row_data.entry_timestamp)

WorkerRow(w) == MsgRow(worker[w].msg)

WorkerTimestamps(w) == <<published[worker[w].msg].msg.row_data.entry_timestamp>>

\* the number of deliveries the worker topic has made so far
RECURSIVE Delivered(_, _)
Delivered(q, n) == IF n = 0 THEN 0 ELSE q[n].deliveries + Delivered(q, n - 1)

\* the function ends: the delivery is acknowledged, or redelivered later
Settle(q, m, pc) ==
    IF pc = "returned" THEN [q EXCEPT ![m].st = "acked"]
    ELSE IF pc = "raised" THEN [q EXCEPT ![m].st = "pending"]
    ELSE q

\* a worker message is delivered; agent_worker_entrypoint decodes it and
\* starts create_agent_run
WorkerReceive(w) ==
    /\ worker[w].pc \in {"idle", "returned", "raised"}
    /\ \E m \in 1..Len(published) :
         /\ queue[m].st = "pending"
         /\ Delivered(queue, Len(queue)) < MaxDeliveries
         /\ LET p == worker_parse(published[m].msg)
            IN /\ queue' = Settle([queue EXCEPT ![m].st = "inflight",
                                                ![m].deliveries = @ + 1],
                                  m, p.next)
               /\ worker' = [worker EXCEPT ![w] = [IdleWorker EXCEPT !.pc = p.next,
                                                                     !.exc = p.exc,
                                                                     !.msg = m]]
    /\ UNCHANGED <<limiter, call, table, orch, published, claimed, terminal, clean_runs>>

\* 1. await create_agent_run(...) returns or raises
AgentRun(w) ==
    /\ worker[w].pc = "agent"
    /\ \E o \in AgentOutcomes :
         /\ worker' = [worker EXCEPT
                         ![w].pc = after_agent_run(create_agent_run(o)),
                         ![w].agent_failure = agent_failure(o),
                         ![w].calls = agent_calls(o),
                         ![w].exc = create_agent_run(o)]
         /\ clean_runs' = IF agent_failure(o) = NoExc
                          THEN clean_runs \cup {WorkerRow(w)}
                          ELSE clean_runs
    /\ UNCHANGED <<limiter, call, table, orch, published, queue, claimed, terminal>>

\* 2. update_rows_status(timestamps=[timestamp], status="PROCESSED")
WorkerUpdateProcessed(w) ==
    /\ worker[w].pc = "upd_processed"
    /\ \E ok \in BOOLEAN :
         /\ worker' = [worker EXCEPT
                         ![w].pc = after_processed_update(ok),
                         ![w].updates = Append(@, [status |-> "PROCESSED", ok |-> ok]),
                         ![w].exc = IF ok THEN @ ELSE "UpdateError"]
         /\ queue' = Settle(queue, worker[w].msg, after_processed_update(ok))
         /\ IF ok
            THEN /\ table' = update_rows_status(table, WorkerTimestamps(w), "PROCESSED")
                 /\ terminal' = [terminal EXCEPT ![WorkerRow(w)] = @ \cup {"PROCESSED"}]
            ELSE UNCHANGED <<table, terminal>>
    /\ UNCHANGED <<limiter, call, orch, published, claimed, clean_runs>>

\* 3. update_rows_status(timestamps=[timestamp], status="FAILED"); raise
WorkerUpdateFailed(w) ==
    /\ worker[w].pc = "upd_failed"
    /\ \E ok \in BOOLEAN :
         /\ worker' = [worker EXCEPT
                         ![w].pc = after_failed_update(ok),
                         ![w].updates = Append(@, [status |-> "FAILED", ok |-> ok]),
                         ![w].exc = exc_after_failed_update(ok, @)]
         /\ queue' = Settle(queue, worker[w].msg, after_failed_update(ok))
         /\ IF ok
            THEN /\ table' = update_rows_status(table, WorkerTimestamps(w), "FAILED")
                 /\ terminal' = [terminal EXCEPT ![WorkerRow(w)] = @ \cup {"FAILED"}]
            ELSE UNCHANGED <<table, terminal>>
    /\ UNCHANGED <<limiter, call, orch, published, claimed, clean_runs>>

\* ---------------------------------------------------------------- system
\* the triggers of the concurrent system: a complete one and one without
\* bq_dataset
SystemTriggers ==
    {Json(Payload(TriggerKeys, "a1")),
     Json(Payload(TriggerKeys \ {"bq_dataset"}, "a1"))}

OrchReceive(i) == Receive(i, SystemTriggers)

Next ==
    \/ \E i \in Invocations : OrchReceive(i)
    \/ \E i \in Invocations : OrchQuery(i)
    \/ \E i \in Invocations : OrchClaim(i)
    \/ \E i \in Invocations : OrchPublish(i)
    \/ \E w \in Workers : WorkerReceive(w)
    \/ \E w \in Workers : AgentRun(w)
    \/ \E w \in Workers : WorkerUpdateProcessed(w)
    \/ \E w \in Workers : WorkerUpdateFailed(w)

Spec == Init /\ [][Next]_vars

\* Orchestrator invocations one after the other (the trigger and its
\* redeliveries), every trigger shape, no Worker running
SeqReceive(i) ==
    /\ \A j \in Invocations : orch[j].pc \in {"idle", "done", "raised"}
    /\ Receive(i, Triggers)

NextSeq ==
    \/ \E i \in Invocations : SeqReceive(i)
    \/ \E i \in Invocations : OrchQuery(i)
    \/ \E i \in Invocations : OrchClaim(i)
    \/ \E i \in Invocations : OrchPublish(i)

SpecSeq == Init /\ [][NextSeq]_vars

\* -------------------------------------------- update_rows_status, called
\* the statuses the callers pass
WrittenStatus == {"QUEUED", "PROCESSED", "FAILED"}

\* the timestamps arguments: lists of entry_timestamp strings
TimestampLists ==
    UNION {[1..n -> {isoformat(t) : t \in Rows}] : n \in 0..NumRows}

\* a table whose rows are in any state of their life
InitCall ==
    /\ \E present \in SUBSET Rows : \E st \in [present -> Status] :
         table = [t \in present |-> [NewRow(t) EXCEPT !.processed_status = st[t]]]
    /\ orch = [i \in Invocations |-> IdleOrch]
    /\ published = <<>>
    /\ queue = <<>>
    /\ worker = [w \in Workers |-> IdleWorker]
    /\ claimed = {}
    /\ terminal = [t \in Rows |-> {}]
    /\ clean_runs = {}
    /\ call = IdleCall
    /\ limiter = IdleLimiter

\* update_rows_status(bq_client, dataset, table, timestamps, status)
CallUpdate ==
    /\ call.pc = "idle"
    /\ \E ts \in TimestampLists : \E status \in WrittenStatus :
         IF update_issues_query(ts)
         THEN \E ok \in BOOLEAN :
                /\ table' = IF ok THEN update_rows_status(table, ts, status)
                                  ELSE table
                /\ call' = [pc |-> IF update_raises(ok) THEN "raised" ELSE "returned",
                            timestamps |-> ts, status |-> status, queries |-> 1,
                            before |-> table]
         ELSE /\ table' = table
              /\ call' = [pc |-> "returned", timestamps |-> ts, status |-> status,
                          queries |-> 0, before |-> table]
    /\ UNCHANGED <<limiter, orch, published, queue, worker, claimed, terminal, clean_runs>>

\* the caller goes on to its next call
CallReturn ==
    /\ call.pc # "idle"
    /\ call' = IdleCall
    /\ UNCHANGED <<limiter, table, orch, published, queue, worker, claimed, terminal,
                   clean_runs>>

NextCall ==
    \/ CallUpdate
    \/ CallReturn

SpecCall == InitCall /\ [][NextCall]_vars

\* ---------------------------------------------------------------- claims
ClaimedRows == {p[2] : p \in claimed}

StatusOf(t) == table[t].processed_status

MessagesOf(t) == {m \in 1..Len(published) : MsgRow(m) = t}

MessagesBy(i) == {m \in 1..Len(published) : published[m].by = i}

Finished(w) == worker[w].pc \in {"returned", "raised"}

\* C1: a worker message is published, and the agent run of a row started,
\* only after the QUEUED update of the publishing invocation returned for
\* that row
C1_ClaimBeforeWork ==
    /\ \A m \in 1..Len(published) : <<published[m].by, MsgRow(m)>> \in claimed
    /\ \A w \in Workers : worker[w].pc # "idle" => WorkerRow(w) \in ClaimedRows

C1_Witness ==
    \E w \in Workers :
        /\ worker[w].pc = "agent"
        /\ Len(published) = NumRows
        /\ \E i \in Invocations : orch[i].pc = "done" /\ Len(orch[i].df) = NumRows

\* C2: at most one worker message is ever published for a row
C2_AtMostOneMessagePerRow ==
    \A t \in Rows : Cardinality(MessagesOf(t)) <= 1

\* C3: a query for unclaimed rows returns no row of a QUEUED update that
\* returned before it
C3_ClaimMonotonic ==
    [][\A i \in Invocations :
          (orch[i].pc = "query" /\ orch'[i].pc \in {"claim", "done"})
              => \A k \in 1..Len(orch'[i].df) : orch'[i].df[k] \notin ClaimedRows]_vars

C3_Witness ==
    \E i \in Invocations :
        /\ orch[i].pc = "done"
        /\ ValidTrigger(orch[i].trigger)
        /\ orch[i].df = <<>>
        /\ DOMAIN table # {}
        /\ ClaimedRows = DOMAIN table
        /\ \E t \in DOMAIN table : StatusOf(t) = "FAILED"

OkUpdates(w) == {k \in 1..Len(worker[w].updates) : worker[w].updates[k].ok}

Completed(i) ==
    /\ orch[i].pc = "done"
    /\ orch[i].exc = NoExc
    /\ ValidTrigger(orch[i].trigger)

\* C5: once an invocation with a valid trigger ran to completion, every row
\* of the table is QUEUED and has exactly one worker message, which carries
\* its entry_timestamp and the trigger's dataset, table and agent
C5_WholeBacklogDispatched ==
    (\E i \in Invocations : Completed(i)) =>
        /\ Len(published) = Cardinality(DOMAIN table)
        /\ \A t \in DOMAIN table :
             /\ StatusOf(t) = "QUEUED"
             /\ Cardinality(MessagesOf(t)) = 1
             /\ \A m \in MessagesOf(t) :
                  LET msg == published[m].msg
                      trig == orch[published[m].by].trigger
                  IN /\ Completed(published[m].by) \/ orch[published[m].by].pc = "publish"
                     /\ msg.row_data.entry_timestamp = isoformat(t)
                     /\ msg.bq_dataset = trig.payload["bq_dataset"]
                     /\ msg.bq_table = trig.payload["bq_table"]
                     /\ msg.agent_resource_id = trig.payload["agent_resource_id"]

C5_Witness ==
    /\ \E i \in Invocations : Completed(i) /\ Len(orch[i].df) = NumRows
    /\ Len(published) = NumRows
    /\ \A t \in Rows : StatusOf(t) = "QUEUED"

ClaimRaised(i) == orch[i].exc = "UpdateError"

Queried(j) ==
    orch[j].pc \in {"claim", "publish"} \/ Completed(j) \/ ClaimRaised(j)

\* C6: when the QUEUED update raises, the exception leaves crf_entrypoint,
\* the invocation publishes nothing, and as long as no claim went through
\* the rows of the batch are still NULL and every other invocation fetches
\* the same rows
C6_ClaimFailureRetrySafe ==
    \A i \in Invocations :
        ClaimRaised(i) =>
            /\ orch[i].pc = "raised"
            /\ MessagesBy(i) = {}
            /\ claimed = {} =>
                 /\ \A k \in 1..Len(orch[i].df) : StatusOf(orch[i].df[k]) = NULL
                 /\ \A j \in Invocations : Queried(j) => orch[j].df = orch[i].df

C6_Witness ==
    \E i, j \in Invocations :
        /\ i # j
        /\ ClaimRaised(i)
        /\ Len(orch[i].df) = NumRows
        /\ orch[j].pc = "claim"
        /\ orch[j].df = orch[i].df
        /\ \A t \in Rows : StatusOf(t) = NULL
        /\ published = <<>>

\* C7: a Worker whose agent run had a remote call raise (session creation,
\* event stream or session deletion) writes FAILED and re-raises that
\* exception
C7_AgentFailureMarksFailed ==
    \A w \in Workers :
        (Finished(w) /\ worker[w].agent_failure # NoExc
            /\ \A k \in 1..Len(worker[w].updates) : worker[w].updates[k].ok)
        => /\ worker[w].pc = "raised"
           /\ worker[w].exc \notin {NoExc, "UpdateError"}
           /\ worker[w].updates = <<[status |-> "FAILED", ok |-> TRUE]>>

\* C8: a row is PROCESSED only if an agent run for it completed without a
\* remote call raising
C8_ProcessedOnlyAfterCleanRun ==
    \A t \in DOMAIN table : StatusOf(t) = "PROCESSED" => t \in clean_runs

\* C9: when the first status update of a Worker raises, that exception
\* leaves the Worker, no second update is attempted and the row stays QUEUED
C9_FinalizeErrorPropagates ==
    \A w \in Workers :
        (Finished(w) /\ Len(worker[w].updates) >= 1 /\ ~worker[w].updates[1].ok)
        => /\ worker[w].pc = "raised"
           /\ worker[w].exc = "UpdateError"
           /\ Len(worker[w].updates) = 1
           /\ StatusOf(WorkerRow(w)) = "QUEUED"

MissingDataset(trig) ==
    trig.kind = "json" /\ "bq_dataset" \notin DOMAIN trig.payload

\* C10: a trigger whose payload lacks bq_dataset makes crf_entrypoint
\* return normally with nothing queried, written or published
C10_MissingDatasetNoOp ==
    \A i \in Invocations :
        (orch[i].pc # "idle" /\ MissingDataset(orch[i].trigger))
        => /\ orch[i].pc = "done"
           /\ orch[i].exc = NoExc
           /\ orch[i].df = <<>>
           /\ MessagesBy(i) = {}
CallDone == call.pc # "idle"

\* C11: update_rows_status with an empty timestamps list issues no query,
\* changes no row and returns
C11_EmptyUpdateNoOp ==
    (CallDone /\ call.timestamps = <<>>)
    => /\ call.queries = 0
       /\ call.pc = "returned"
       /\ table = call.before

C11_Witness ==
    /\ call.pc = "returned"
    /\ call.timestamps = <<>>
    /\ call.status = "FAILED"
    /\ DOMAIN table = Rows
    /\ \A t \in Rows : StatusOf(t) = "QUEUED"

\* C13: a call of update_rows_status either returns with every row of the
\* collection at the given status, or raises with no row changed
C13_AllOrNothing ==
    CallDone =>
        \/ /\ call.pc = "returned"
           /\ DOMAIN table = DOMAIN call.before
           /\ \A t \in DOMAIN table :
                StatusOf(t) = IF t \in InClause(call.timestamps)
                              THEN call.status
                              ELSE call.before[t].processed_status
        \/ /\ call.pc = "raised"
           /\ table = call.before

C13_Witness ==
    /\ call.pc = "raised"
    /\ InClause(call.timestamps) = Rows
    /\ DOMAIN table = Rows
    /\ \A t \in Rows : StatusOf(t) # call.status

NullRows == {t \in DOMAIN table : StatusOf(t) = NULL}

QueryReturns(i) ==
    orch[i].pc = "query" /\ orch'[i].pc \in {"claim", "done"}

\* C12: the query for unclaimed rows leaves the table as it is and returns
\* the rows whose processed_status is NULL, so with no status write since,
\* it returns what every earlier query returned
C12_IdempotentFetch ==
    [][\A i \in Invocations :
          QueryReturns(i) =>
              /\ table' = table
              /\ {orch'[i].df[k] : k \in 1..Len(orch'[i].df)} = NullRows
              /\ claimed = {} =>
                   \A j \in Invocations : Queried(j) => orch[j].df = orch'[i].df]_vars

C12_Witness ==
    \E i, j \in Invocations :
        /\ i # j
        /\ orch[i].pc = "claim"
        /\ orch[j].pc = "claim"
        /\ Len(orch[i].df) = NumRows
        /\ orch[j].df = orch[i].df
        /\ claimed = {}

FirstWrite(w) ==
    /\ worker[w].pc \in {"upd_processed", "upd_failed"}
    /\ worker[w].updates = <<>>
    /\ worker'[w].updates # <<>>
    /\ worker'[w].updates[1].ok

\* C14: the status a Worker writes after its agent run depends on that run
\* alone (FAILED when create_agent_run raised, PROCESSED when it returned),
\* and the write touches no other row and no other Worker
C14_Isolation ==
    [][\A w \in Workers :
          FirstWrite(w) =>
              /\ table'[WorkerRow(w)].processed_status =
                    IF worker[w].exc = NoExc THEN "PROCESSED" ELSE "FAILED"
              /\ worker'[w].pc = IF worker[w].exc = NoExc THEN "returned" ELSE "raised"
              /\ \A t \in DOMAIN table \ {WorkerRow(w)} : table'[t] = table[t]
              /\ \A v \in Workers \ {w} : worker'[v] = worker[v]]_vars

C14_Witness ==
    \E w, v \in Workers :
        /\ worker[w].pc = "raised"
        /\ worker[v].pc = "returned"
        /\ WorkerRow(w) # WorkerRow(v)
        /\ worker[w].updates = <<[status |-> "FAILED", ok |-> TRUE]>>
        /\ StatusOf(WorkerRow(w)) = "FAILED"
        /\ worker[v].agent_failure = NoExc
        /\ StatusOf(WorkerRow(v)) = "PROCESSED"
        /\ queue[worker[w].msg].deliveries = 1
        /\ queue[worker[v].msg].deliveries = 1

\* BatchResult of the batch of invocation i: the rows whose task returned
\* normally, and the rows whose task ended in an exception
succeeded(i) ==
    {MsgRow(m) : m \in {n \in MessagesBy(i) : queue[n].st = "acked"}}

failed(i) ==
    {MsgRow(m) : m \in {n \in MessagesBy(i) :
                          queue[n].st = "pending" /\ queue[n].deliveries > 0}}

Batch(i) == InClause(timestamps_of(orch[i].row_list))

\* every row of the batch was dispatched and its processing has ended
BatchResolved(i) ==
    /\ orch[i].pc = "done"
    /\ Batch(i) # {}
    /\ \A m \in MessagesBy(i) :
         queue[m].st \in {"acked", "pending"} /\ queue[m].deliveries > 0

\* no other invocation claimed a row of the batch
SoleClaimant(i) ==
    \A t \in Batch(i) : \A j \in Invocations : <<j, t>> \in claimed => j = i

AllUpdatesOk(w) ==
    \A k \in 1..Len(worker[w].updates) : worker[w].updates[k].ok

\* C15: once the processing of every row of a batch has ended, succeeded and
\* failed are disjoint, their union is the batch with each row once, the
\* failed rows are those whose processing raised, and the Row Store agrees
C15_BatchPartition ==
    \A i \in Invocations :
        (BatchResolved(i) /\ SoleClaimant(i)) =>
            /\ succeeded(i) \cap failed(i) = {}
            /\ succeeded(i) \cup failed(i) = Batch(i)
            /\ Cardinality(MessagesBy(i)) = Cardinality(Batch(i))
            /\ Cardinality(succeeded(i)) + Cardinality(failed(i)) = Len(orch[i].row_list)
            /\ \A t \in succeeded(i) : StatusOf(t) = "PROCESSED"
            /\ \A t \in failed(i) : StatusOf(t) \in {"FAILED", "QUEUED"}
            /\ \A w \in Workers :
                 (/\ Finished(w)
                  /\ published[worker[w].msg].by = i
                  /\ queue[worker[w].msg].deliveries = 1
                  /\ AllUpdatesOk(w))
                 => (WorkerRow(w) \in failed(i) <=> worker[w].exc # NoExc)

C15_Witness ==
    \E i \in Invocations :
        /\ BatchResolved(i)
        /\ SoleClaimant(i)
        /\ Cardinality(Batch(i)) = NumRows
        /\ Cardinality(failed(i)) = 1
        /\ Cardinality(succeeded(i)) = NumRows - 1
        /\ \A t \in failed(i) : StatusOf(t) = "FAILED"

AllowedTransition(old, new) ==
    \/ old = new
    \/ old = NULL /\ new = "QUEUED"
    \/ old = "QUEUED" /\ new \in {"PROCESSED", "FAILED"}

\* C16: statuses move only NULL -> QUEUED and QUEUED -> PROCESSED or FAILED,
\* a claim write covers only rows that are NULL, and no row is deleted
C16_StatusLifecycle ==
    [][/\ DOMAIN table' = DOMAIN table
       /\ \A t \in DOMAIN table :
            AllowedTransition(table[t].processed_status, table'[t].processed_status)
       /\ \A p \in claimed' \ claimed : table[p[2]].processed_status = NULL]_vars

\* C17: no step sets a status back to NULL, and a query for unclaimed rows
\* never returns a row whose status is not NULL, QUEUED included
C17_NoRequeue ==
    [][/\ \A t \in DOMAIN table :
            table[t].processed_status # NULL => table'[t].processed_status # NULL
       /\ \A i \in Invocations :
            QueryReturns(i) =>
                \A k \in 1..Len(orch'[i].df) :
                    table[orch'[i].df[k]].processed_status = NULL]_vars

C17_Witness ==
    \E i \in Invocations : \E w \in Workers :
        /\ orch[i].pc = "done"
        /\ ValidTrigger(orch[i].trigger)
        /\ orch[i].df = <<>>
        /\ worker[w].pc = "raised"
        /\ worker[w].updates = <<[status |-> "FAILED", ok |-> FALSE]>>
        /\ StatusOf(WorkerRow(w)) = "QUEUED"
        /\ published[worker[w].msg].by # i

RECURSIVE SumDeliveries(_)
SumDeliveries(S) ==
    IF S = {} THEN 0
    ELSE LET m == CHOOSE x \in S : TRUE
         IN queue[m].deliveries + SumDeliveries(S \ {m})

\* the number of times create_agent_run was started for row t
AgentRunsOf(t) == SumDeliveries(MessagesOf(t))

\* C18: create_agent_run is started at most once for a row
C18_ProcessedOnce ==
    \A t \in Rows : AgentRunsOf(t) <= 1

\* C19: when the query returns no row, crf_entrypoint ends there: no status
\* update, no publish, the table and the worker topic as they were
C19_EmptyBacklogNoOp ==
    [][\A i \in Invocations :
          /\ (QueryReturns(i) /\ orch'[i].df = <<>>) =>
                /\ orch'[i].pc = "done"
                /\ orch'[i].exc = NoExc
                /\ table' = table
                /\ published' = published
                /\ queue' = queue
          /\ orch[i].pc = "done" => orch'[i] = orch[i]]_vars

C19_Witness ==
    \E i \in Invocations :
        /\ Completed(i)
        /\ orch[i].df = <<>>
        /\ MessagesBy(i) = {}
        /\ DOMAIN table = Rows
        /\ \A t \in Rows : StatusOf(t) = "QUEUED"

\* ------------------------------------------------------------ C20
\* the messages the dispatch loops can publish: one per fetched row and
\* invocation
MaxMessages == NumInvocations * NumRows

\* the worker topic delivers message m to a free Worker: a first delivery
\* always happens, redeliveries are bounded
Deliver(w, m) ==
    /\ worker[w].pc \in {"idle", "returned", "raised"}
    /\ m \in 1..Len(published)
    /\ queue[m].st = "pending"
    /\ \/ queue[m].deliveries = 0
       \/ Delivered(queue, Len(queue)) < MaxDeliveries
    /\ LET p == worker_parse(published[m].msg)
       IN /\ queue' = Settle([queue EXCEPT ![m].st = "inflight",
                                           ![m].deliveries = @ + 1],
                             m, p.next)
          /\ worker' = [worker EXCEPT ![w] = [IdleWorker EXCEPT !.pc = p.next,
                                                                !.exc = p.exc,
                                                                !.msg = m]]
    /\ UNCHANGED <<limiter, call, table, orch, published, claimed, terminal, clean_runs>>

LiveDeliver(m) == \E w \in Workers : Deliver(w, m)

\* the status updates succeed; the trigger and its redeliveries arrive one
\* after the other (SeqReceive), the Workers run beside the Orchestrator
LiveClaim(i) == OrchClaim(i) /\ orch'[i].exc = NoExc

LiveUpdateProcessed(w) ==
    WorkerUpdateProcessed(w) /\ worker'[w].exc # "UpdateError"

LiveUpdateFailed(w) ==
    WorkerUpdateFailed(w) /\ worker'[w].exc # "UpdateError"

NextLive ==
    \/ \E i \in Invocations : SeqReceive(i)
    \/ \E i \in Invocations : OrchQuery(i)
    \/ \E i \in Invocations : LiveClaim(i)
    \/ \E i \in Invocations : OrchPublish(i)
    \/ \E m \in 1..MaxMessages : LiveDeliver(m)
    \/ \E w \in Workers : AgentRun(w)
    \/ \E w \in Workers : LiveUpdateProcessed(w)
    \/ \E w \in Workers : LiveUpdateFailed(w)

\* a started function runs to its end, every published message is
\* delivered, every agent call returns or raises
Fairness ==
    /\ \A i \in Invocations :
         /\ WF_vars(OrchQuery(i))
         /\ WF_vars(LiveClaim(i))
         /\ WF_vars(OrchPublish(i))
    /\ \A m \in 1..MaxMessages : WF_vars(LiveDeliver(m))
    /\ \A w \in Workers :
         /\ WF_vars(AgentRun(w))
         /\ WF_vars(LiveUpdateProcessed(w))
         /\ WF_vars(LiveUpdateFailed(w))

SpecLive == Init /\ [][NextLive]_vars /\ Fairness

IsQueued(t) == t \in DOMAIN table /\ StatusOf(t) = "QUEUED"

IsFinal(t) == t \in DOMAIN table /\ StatusOf(t) \in {"PROCESSED", "FAILED"}

TerminalWrite(w) ==
    /\ worker[w].pc \in {"upd_processed", "upd_failed"}
    /\ Len(worker'[w].updates) = Len(worker[w].updates) + 1

PayloadOf(r) == [r EXCEPT !.processed_status = NULL]

\* C21: a Worker's terminal status update changes only the
\* processed_status of the row named in its message; every other row and
\* every payload field of every row stay as they were
C21_FinalizationFrame ==
    [][\A w \in Workers :
         TerminalWrite(w) =>
           /\ DOMAIN table' = DOMAIN table
           /\ \A t \in DOMAIN table :
                /\ t # WorkerRow(w) => table'[t] = table[t]
                /\ PayloadOf(table'[t]) = PayloadOf(table[t])]_vars

\* a Worker wrote FAILED for the later row while the earlier row is still
\* QUEUED
C21_Witness ==
    \E w \in Workers :
        /\ worker[w].pc = "raised"
        /\ OkUpdates(w) # {}
        /\ WorkerRow(w) = 2
        /\ DOMAIN table = Rows
        /\ StatusOf(2) = "FAILED"
        /\ StatusOf(1) = "QUEUED"

\* ------------------------------------------------------------ C22
\* the position of message m among the messages of its invocation
RankBy(i, m) == Cardinality({n \in MessagesBy(i) : n <= m})

\* C22: within one Orchestrator invocation the rows are fetched in
\* ascending entry_timestamp order and their messages are published in
\* that same order, oldest row first
C22_FifoDispatch ==
    \A i \in Invocations :
        /\ \A k \in 1..(Len(orch[i].df) - 1) : orch[i].df[k] < orch[i].df[k + 1]
        /\ \A m \in MessagesBy(i) :
             /\ RankBy(i, m) <= Len(orch[i].df)
             /\ MsgRow(m) = orch[i].df[RankBy(i, m)]
             /\ published[m].msg.row_data.index = RankBy(i, m) - 1

\* an invocation fetched two rows and published both messages
C22_Witness ==
    \E i \in Invocations :
        /\ Completed(i)
        /\ Len(orch[i].df) = 2
        /\ Cardinality(MessagesBy(i)) = 2
        /\ \A m \in MessagesBy(i) : MsgRow(m) = RankBy(i, m)

\* ------------------------------------------------------------ C23
\* the dispatch loop over a worker topic that can lose a message after the
\* publish call returned
LossyPublish(i) == Publish(i, PublishOutcomes)

\* the trigger and its redeliveries one after the other, a lossy worker
\* topic, and the Workers
NextPub ==
    \/ \E i \in Invocations : SeqReceive(i)
    \/ \E i \in Invocations : OrchQuery(i)
    \/ \E i \in Invocations : OrchClaim(i)
    \/ \E i \in Invocations : LossyPublish(i)
    \/ \E w \in Workers : WorkerReceive(w)
    \/ \E w \in Workers : AgentRun(w)
    \/ \E w \in Workers : WorkerUpdateProcessed(w)
    \/ \E w \in Workers : WorkerUpdateFailed(w)

SpecPub == Init /\ [][NextPub]_vars

Lost(m) == queue[m].st = "lost"

AllCallsIssued(i) ==
    orch[i].pc = "publish" /\ orch[i].dispatched_count = Len(orch[i].row_list)

\* C23: after the claim, every step of the dispatch loop leaves the Row
\* Store alone and raises nothing whatever became of the message; once a
\* publish call was issued for every row the invocation returns success;
\* a row whose message was lost keeps its QUEUED status
C23_FireAndForget ==
    [][/\ \A i \in Invocations :
            (orch[i].pc = "publish" /\ orch'[i] # orch[i]) =>
                /\ table' = table
                /\ orch'[i].exc = NoExc
                /\ orch'[i].pc \in {"publish", "done"}
                /\ AllCallsIssued(i) => orch'[i].pc = "done"
       /\ \A m \in 1..Len(published') :
            queue'[m].st = "lost" => table'[MsgRow(m)'].processed_status = "QUEUED"]_vars

\* an invocation returned success after two publish calls; the message of
\* row 1 was lost and row 1 is QUEUED, the message of row 2 was delivered
\* and row 2 is PROCESSED
C23_Witness ==
    \E i \in Invocations :
        /\ Completed(i)
        /\ Cardinality(MessagesBy(i)) = 2
        /\ \E m \in MessagesBy(i) : Lost(m) /\ MsgRow(m) = 1
        /\ DOMAIN table = Rows
        /\ StatusOf(1) = "QUEUED"
        /\ StatusOf(2) = "PROCESSED"

\* ------------------------------------------------------------ C24
QueryRaised(i) == orch[i].exc = "QueryError"

\* C24: when the query for unclaimed rows raises, the exception leaves
\* crf_entrypoint, the failing step changes no row and publishes nothing,
\* and the invocation never claims or publishes afterwards, so the
\* unclaimed rows are the same for the next trigger
C24_QueryFailureNoEffect ==
    [][\A i \in Invocations :
         QueryRaised(i)' =>
           /\ orch'[i].pc = "raised"
           /\ orch'[i].df = <<>>
           /\ MessagesBy(i)' = {}
           /\ \A t \in Rows : <<i, t>> \notin claimed'
           /\ ~QueryRaised(i) =>
                /\ table' = table
                /\ published' = published
                /\ queue' = queue
                /\ rows_to_process_query(table') = rows_to_process_query(table)]_vars

\* the query of one invocation raised; the redelivered trigger then
\* fetched and dispatched both rows
C24_Witness ==
    \E i, j \in Invocations :
        /\ QueryRaised(i)
        /\ Completed(j)
        /\ orch[j].df = <<1, 2>>
        /\ MessagesBy(i) = {}
        /\ Cardinality(MessagesBy(j)) = 2

\* ------------------------------------------------------------ C25
Malformed(trig) == trig.kind \in {"nodata", "badjson"}

\* C25: a trigger without message data, or whose body is not valid JSON,
\* ends crf_entrypoint (returning or raising) in the step that receives
\* it, with no status write and no publish by that invocation
C25_MalformedTriggerNoEffect ==
    [][\A i \in Invocations :
         (orch'[i].pc # "idle" /\ Malformed(orch'[i].trigger)) =>
           /\ orch'[i].pc \in {"done", "raised"}
           /\ orch'[i].df = <<>>
           /\ MessagesBy(i)' = {}
           /\ \A t \in Rows : <<i, t>> \notin claimed'
           /\ orch[i].pc = "idle" =>
                /\ table' = table
                /\ published' = published
                /\ queue' = queue]_vars

\* one trigger had no data, the other an invalid body; both rows are still
\* NULL and nothing was published
C25_Witness ==
    \E i, j \in Invocations :
        /\ orch[i].pc # "idle" /\ orch[i].trigger = NoData
        /\ orch[j].pc # "idle" /\ orch[j].trigger = BadJson
        /\ DOMAIN table = Rows
        /\ \A t \in Rows : StatusOf(t) = NULL
        /\ published = <<>>

\* ------------------------------------------------------------ C26
\* the invocation dies inside the dispatch loop, after the lock step and
\* before the last publish call (a publish call raising, the function
\* timing out or its instance being stopped)
OrchCrash(i) ==
    /\ orch[i].pc = "publish"
    /\ orch[i].dispatched_count < Len(orch[i].row_list)
    /\ orch' = [orch EXCEPT ![i].pc = "raised", ![i].exc = "Crash"]
    /\ UNCHANGED <<limiter, call, table, published, queue, worker, claimed, terminal, clean_runs>>

\* the trigger and its redeliveries, with invocations that can die in the
\* dispatch loop
NextCrash ==
    \/ \E i \in Invocations : SeqReceive(i)
    \/ \E i \in Invocations : OrchQuery(i)
    \/ \E i \in Invocations : OrchClaim(i)
    \/ \E i \in Invocations : OrchPublish(i)
    \/ \E i \in Invocations : OrchCrash(i)

SpecCrash == Init /\ [][NextCrash]_vars

Crashed(i) == orch[i].pc = "raised" /\ orch[i].exc = "Crash"

\* C26: when an invocation died after its claim and before its last
\* publish call, and the redelivered trigger ran to completion, every
\* QUEUED row has a worker message
C26_NoClaimedRowUndispatched ==
    (\E i, j \in Invocations : Crashed(i) /\ Completed(j)) =>
        \A t \in DOMAIN table : StatusOf(t) = "QUEUED" => MessagesOf(t) # {}

\* ------------------------------------------------------------ C27
\* the message the dispatch loop would publish for row t
WellFormed(t) ==
    worker_payload(Payload(TriggerKeys, "a1"),
                   row_dict([r \in {t} |-> NewRow(t)], <<t>>, 1))

Restrict(msg, ks) == [k \in ks |-> msg[k]]

\* worker messages that cannot be decoded or that lack a key
ForeignMessages ==
    {Undecodable}
    \cup {Restrict(WellFormed(1), ks) : ks \in (SUBSET WorkerKeys) \ {WorkerKeys}}

Foreign(m) == published[m].by = 0

\* a publisher other than the Orchestrator puts one message on the worker
\* topic
Inject ==
    /\ \A m \in 1..Len(published) : ~Foreign(m)
    /\ \E msg \in ForeignMessages :
         /\ published' = Append(published, [by |-> 0, msg |-> msg])
         /\ queue' = Append(queue, [st |-> "pending", deliveries |-> 0])
    /\ UNCHANGED <<limiter, call, table, orch, worker, claimed, terminal, clean_runs>>

\* the complete trigger and its redeliveries, one after the other
ValidReceive(i) ==
    /\ \A j \in Invocations : orch[j].pc \in {"idle", "done", "raised"}
    /\ Receive(i, {Json(Payload(TriggerKeys, "a1"))})

\* the Orchestrator on its trigger, the Workers, and the foreign message
NextWorker ==
    \/ \E i \in Invocations : ValidReceive(i)
    \/ \E i \in Invocations : OrchQuery(i)
    \/ \E i \in Invocations : OrchClaim(i)
    \/ \E i \in Invocations : OrchPublish(i)
    \/ Inject
    \/ \E w \in Workers : WorkerReceive(w)
    \/ \E w \in Workers : AgentRun(w)
    \/ \E w \in Workers : WorkerUpdateProcessed(w)
    \/ \E w \in Workers : WorkerUpdateFailed(w)

SpecWorker == Init /\ [][NextWorker]_vars

\* C27: a worker message that cannot be decoded, or that lacks one of
\* bq_dataset, bq_table, agent_resource_id and row_data, makes
\* agent_worker_entrypoint raise in the step that receives it: no agent
\* call, no status update, no row changed
C27_MalformedMessageRaises ==
    [][\A w \in Workers :
         (worker'[w] # worker[w] /\ worker'[w].msg # 0
          /\ Foreign(worker'[w].msg)) =>
           /\ worker'[w].pc = "raised"
           /\ worker'[w].exc \in {"JSONDecodeError", "KeyError"}
           /\ worker'[w].updates = <<>>
           /\ worker'[w].agent_failure = NoExc
           /\ table' = table
           /\ clean_runs' = clean_runs
           /\ terminal' = terminal]_vars

\* a message without row_data was delivered and made the Worker raise
\* while a row was QUEUED
C27_Witness ==
    \E w \in Workers :
        /\ worker[w].pc = "raised"
        /\ worker[w].msg # 0
        /\ Foreign(worker[w].msg)
        /\ DOMAIN published[worker[w].msg].msg = WorkerKeys \ {"row_data"}
        /\ \E t \in DOMAIN table : StatusOf(t) = "QUEUED"

\* ------------------------------------------------------------ C28
SessionCreated(w) ==
    worker[w].calls # <<>> /\ worker[w].agent_failure # "SessionCreateError"

\* C28: in every agent run that created its session, the session delete
\* call is issued, right after the streaming call, whether streaming
\* completed or raised
C28_SessionCleanup ==
    \A w \in Workers :
        SessionCreated(w) =>
            worker[w].calls = <<"create_session", "stream_query", "delete_session">>

\* a run whose streaming raised and whose session was deleted, and a run
\* that failed to create its session and issued no further call
C28_Witness ==
    \E w, v \in Workers :
        /\ worker[w].agent_failure = "StreamError"
        /\ worker[w].calls[Len(worker[w].calls)] = "delete_session"
        /\ worker[v].calls = <<"create_session">>
        /\ worker[v].agent_failure = "SessionCreateError"

\* ------------------------------------------------------------ C29
\* mutant: the stored count, not the incremented one, is compared
over_quota_stored(request_count, rpm_quota) == request_count - 1 > rpm_quota

\* if request_count > config.rpm_quota
over_quota(request_count, rpm_quota) == request_count > rpm_quota

\* the session state and the sleep of one rate_limit_callback call entered
\* at time now
rate_limit_callback(cfg, st, now) ==
    IF "timer_start" \notin st.keys
    THEN [state |-> [keys |-> {"timer_start", "request_count"},
                     timer_start |-> now, request_count |-> 1],
          slept |-> 0]
    ELSE LET request_count == st.request_count + 1
             elapsed_secs == now - st.timer_start
             delay == cfg.rate_limit_seconds - elapsed_secs + 1
         IN IF over_quota(request_count, cfg.rpm_quota)
            THEN [state |-> [st EXCEPT !.timer_start = now, !.request_count = 1],
                  slept |-> IF delay > 0 THEN delay ELSE 0]
            ELSE [state |-> [st EXCEPT !.request_count = request_count],
                  slept |-> 0]

InitRate ==
    /\ table = [t \in Rows |-> NewRow(t)]
    /\ orch = [i \in Invocations |-> IdleOrch]
    /\ published = <<>>
    /\ queue = <<>>
    /\ worker = [w \in Workers |-> IdleWorker]
    /\ claimed = {}
    /\ terminal = [t \in Rows |-> {}]
    /\ clean_runs = {}
    /\ call = IdleCall
    /\ \E q \in 1..MaxQuota : \E s \in 1..MaxSeconds :
         limiter = [IdleLimiter EXCEPT !.config = [rpm_quota |-> q,
                                                   rate_limit_seconds |-> s]]

\* one LLM request: the callback runs at now = time.time() and sleeps
RateLimitCall ==
    /\ limiter.time < MaxTime
    /\ \E dt \in 0..1 :
         LET now == limiter.time + dt
             r == rate_limit_callback(limiter.config, limiter.state, now)
         IN limiter' = [limiter EXCEPT !.state = r.state,
                                       !.slept = r.slept,
                                       !.time = now + r.slept]
    /\ UNCHANGED <<table, orch, published, queue, worker, claimed, terminal,
                   clean_runs, call>>

NextRate == RateLimitCall

SpecRate == InitRate /\ [][NextRate]_vars

Called == "timer_start" \in limiter.state.keys

\* C29: after any sequence of rate_limit_callback calls the stored
\* request_count is between 1 and rpm_quota, and a call that would raise
\* the count above rpm_quota stores 1 and sets timer_start to the time of
\* that call
C29_RateLimitCounter ==
    [][/\ Called' => /\ limiter'.state.request_count >= 1
                     /\ limiter'.state.request_count <= limiter.config.rpm_quota
       /\ (Called /\ limiter' # limiter
           /\ limiter.state.request_count + 1 > limiter.config.rpm_quota) =>
             /\ limiter'.state.request_count = 1
             /\ limiter'.state.timer_start = limiter'.time - limiter'.slept
             /\ limiter'.state.timer_start >= limiter.time]_vars

\* with a quota of 2 the count reached the quota, was reset to 1 by the
\* next call, which had to sleep, and the timer restarted
C29_Witness ==
    /\ Called
    /\ limiter.config.rpm_quota = 2
    /\ limiter.state.request_count = 1
    /\ limiter.state.timer_start > 0
    /\ limiter.slept > 0

====
